---- MODULE Spec2Model ----
(***************************************************************************)
(* Model of the task / priority lifecycle of priority-tracker              *)
(* (src/js/tasks.js, src/unnamed/part_001, src/js/app.js).                 *)
(*                                                                         *)
(* Time.  A JavaScript Date is modelled by the instant it holds, counted   *)
(* in hours since 2023-12-01T00:00Z.  The code mixes the UTC view of a     *)
(* Date (new Date('YYYY-MM-DD'), toISOString) with the local view          *)
(* (getDate, setDate, setMonth, setHours, getDay), so the host time zone   *)
(* is part of the environment: tz is the zone the browser runs in.         *)
(* A calendar date string 'YYYY-MM-DD' is the tuple <<y, m, d>>.           *)
(***************************************************************************)
EXTENDS Integers, Sequences, FiniteSets, TLC

VARIABLES
    tz,          \* host time zone: [name, std, dstStart]
    now,         \* the wall clock, an instant
    calc,        \* one call of calculateNextRecurrence: [pattern, date, result]
    probe,       \* one task handed to the classifier, with its bucket set
    db,          \* Firestore collection 'tasks': id -> stored document
    nextId,      \* number of documents ever added (ids and createdAt order)
    tasks,       \* tasks.js `tasks`: type -> last delivered snapshot
    pdb,         \* Firestore documents priorities/<category>: [items, updatedAt]
    priorities,  \* part_001 `priorities`: category -> list, for the categories set
    generated,   \* number of priority ids generateId has handed out
    categories,  \* part_001 `categories`: the category ids
    listeners,   \* the snapshot listeners: subscriptions and the handles kept
    last,        \* the last operation run, its inputs and its outcome
    ops          \* operations the behaviour may still run (bounds the model)

vars == <<tz, now, calc, probe, db, nextId, tasks, pdb, priorities, generated, categories,
          listeners, last, ops>>

-----------------------------------------------------------------------------
(* Bounds of the model *)

MaxAnchorDay == 125   \* anchors of the recurrence calculator: days 1..MaxAnchorDay
MaxTasks == 3         \* task documents ever added
MaxTicks == 1         \* clock advances in the task model
MaxOps == 3           \* operations run in one behaviour of the task model
MaxPriorities == 4    \* priorities ever added
MaxDueOffset == 16    \* classifier due dates reach this many days past the week

-----------------------------------------------------------------------------
(* JavaScript null / undefined, one per field type *)

NullDate == <<>>        \* dueDate: null
NullStr == "null"       \* recurring, recurringPattern, priorityId: null
NullTime == 0 - 1       \* completedAt: null
NoOrder == 0 - 1        \* order: undefined (addTask writes no order field)

-----------------------------------------------------------------------------
(* The calendar: months are indexed from 0 = December 2023 *)

YearOf(k) == 2023 + ((k + 11) \div 12)
MonthOf(k) == ((k + 11) % 12) + 1
MonthIdx(y, m) == (y - 2023) * 12 + m - 12

IsLeap(y) == (y % 4 = 0 /\ y % 100 # 0) \/ y % 400 = 0

DaysInMonth(y, m) ==
    IF m = 2 THEN (IF IsLeap(y) THEN 29 ELSE 28)
    ELSE IF m \in {4, 6, 9, 11} THEN 30 ELSE 31

RECURSIVE MonthStart(_)
\* day number of the first day of month k (day 0 = 2023-12-01)
MonthStart(k) ==
    IF k <= 0 THEN 0
    ELSE MonthStart(k - 1) + DaysInMonth(YearOf(k - 1), MonthOf(k - 1))

\* ECMAScript MakeDay(year, month, date): a date past the end of the month
\* runs on into the following months
MakeDay(k, dom) == MonthStart(k) + dom - 1

RECURSIVE MonthFromDay(_, _)
MonthFromDay(day, k) ==
    IF day < MonthStart(k + 1) THEN k ELSE MonthFromDay(day, k + 1)

\* ECMAScript MonthFromTime / DateFromTime on a day number
MonthIdxOfDay(day) == MonthFromDay(day, 0)
DateOfDay(day) == day - MonthStart(MonthIdxOfDay(day)) + 1

-----------------------------------------------------------------------------
(* Time zones: a standard offset and, where the zone observes it, the      *)
(* instant at which daylight saving time starts (clocks go forward 1 h)    *)

NoDst == 0 - 1

Zones ==
    { [name |-> "UTC", std |-> 0, dstStart |-> NoDst],
      \* America/New_York: 2024-03-10 02:00 EST = 07:00Z
      [name |-> "America/New_York", std |-> 0 - 5, dstStart |-> MakeDay(3, 10) * 24 + 7],
      \* Europe/Berlin: 2024-03-31 02:00 CET = 01:00Z
      [name |-> "Europe/Berlin", std |-> 1, dstStart |-> MakeDay(3, 31) * 24 + 1] }

\* ECMAScript LocalTime(t) = t + LocalTZA(t, true)
LocalTZA(t) == IF tz.dstStart # NoDst /\ t >= tz.dstStart THEN tz.std + 1 ELSE tz.std
LocalTime(t) == t + LocalTZA(t)

\* ECMAScript UTC(t) = t - LocalTZA(t, false); a local time skipped by the
\* transition is read with the offset in force before it
UTC(l) ==
    IF tz.dstStart = NoDst \/ l - tz.std < tz.dstStart THEN l - tz.std
    ELSE IF l - (tz.std + 1) >= tz.dstStart THEN l - (tz.std + 1)
    ELSE l - tz.std

-----------------------------------------------------------------------------
(* Date methods used by the code, on instants *)

\* new Date('YYYY-MM-DD'): a date-only string is UTC midnight
ParseDate(s) == MakeDay(MonthIdx(s[1], s[2]), s[3]) * 24

\* date.toISOString().split('T')[0]: the UTC calendar date
ToISODate(t) ==
    LET day == t \div 24
        k == MonthIdxOfDay(day)
    IN  <<YearOf(k), MonthOf(k), DateOfDay(day)>>

getDate(t) == DateOfDay(LocalTime(t) \div 24)
getMonth(t) == MonthIdxOfDay(LocalTime(t) \div 24)
\* 0 = Sunday; day 0 (2023-12-01) is a Friday
getDay(t) == ((LocalTime(t) \div 24) + 5) % 7

\* date.setDate(d): local date replaced, local time of day kept
setDate(t, d) ==
    LET l == LocalTime(t)
    IN  UTC(MakeDay(getMonth(t), d) * 24 + (l % 24))

\* date.setMonth(k): local month replaced, local date and time of day kept
setMonth(t, k) ==
    LET l == LocalTime(t)
    IN  UTC(MakeDay(k, getDate(t)) * 24 + (l % 24))

\* date.setHours(0, 0, 0, 0): local midnight of the local date
setHoursStartOfDay(t) == UTC((LocalTime(t) \div 24) * 24)

\* date.setHours(23, 59, 59, 999): the last instant of the local date; the
\* model's unit is the hour, so this is the last hour of the local date
setHoursEndOfDay(t) == UTC((LocalTime(t) \div 24) * 24 + 23)

-----------------------------------------------------------------------------
(* Recurrence calculator *)

Patterns == {"daily", "weekly", "monthly", "weekdays"}

calculateNextRecurrence(pattern, currentDate) ==
    LET date == IF currentDate # NullDate THEN ParseDate(currentDate) ELSE now
        next == CASE pattern = "daily" -> setDate(date, getDate(date) + 1)
                  [] pattern = "weekly" -> setDate(date, getDate(date) + 7)
                  [] pattern = "monthly" -> setMonth(date, getMonth(date) + 1)
                  [] OTHER -> setDate(date, getDate(date) + 1)
    IN  ToISODate(next)

-----------------------------------------------------------------------------
(* Category classifier: the filter callbacks of getTasksByCategory and     *)
(* getTodayTasks, for one task                                             *)

Sections == {"today", "thisWeek", "nextWeek", "beyond", "backburner", "recurring"}

\* const today = new Date(); today.setHours(0, 0, 0, 0)
Today == setHoursStartOfDay(now)

\* completedDate.setHours(0, 0, 0, 0); completedDate.getTime() === today.getTime()
CompletedToday(task) == setHoursStartOfDay(task.completedAt) = Today

\* const dueDate = new Date(task.dueDate); dueDate.setHours(0, 0, 0, 0)
DueMidnight(task) == setHoursStartOfDay(ParseDate(task.dueDate))

\* endOfThisWeek: today + (7 - today.getDay()) days, at 23:59:59.999
EndOfThisWeek ==
    LET daysUntilSunday == 7 - getDay(Today)
    IN  setHoursEndOfDay(setDate(Today, getDate(Today) + daysUntilSunday))

\* endOfNextWeek: endOfThisWeek + 7 days
EndOfNextWeek == setDate(EndOfThisWeek, getDate(EndOfThisWeek) + 7)

\* CategoryRule without line 255 (recurring tasks skipped outside 'recurring')
CategoryRuleRecurringNotSkipped(task, category) ==
    IF category = "recurring" THEN
        IF task.recurring = NullStr THEN FALSE
        ELSE IF task.completed /\ (task.completedAt = NullTime \/ ~CompletedToday(task))
            THEN FALSE
        ELSE IF task.dueDate # NullDate THEN DueMidnight(task) <= Today
        ELSE TRUE
    ELSE IF task.dueDate # NullDate THEN
        CASE category = "today" -> DueMidnight(task) <= Today
          [] category = "thisWeek" ->
                DueMidnight(task) > Today /\ DueMidnight(task) <= EndOfThisWeek
          [] category = "nextWeek" ->
                DueMidnight(task) > EndOfThisWeek /\ DueMidnight(task) <= EndOfNextWeek
          [] category = "beyond" -> DueMidnight(task) > EndOfNextWeek
          [] OTHER -> FALSE
    ELSE task.category = category

\* CategoryRule with lines 277-278 falling through to task.category
CategoryRuleBackburnerByCategory(task, category) ==
    IF category = "recurring" THEN
        IF task.recurring = NullStr THEN FALSE
        ELSE IF task.completed /\ (task.completedAt = NullTime \/ ~CompletedToday(task))
            THEN FALSE
        ELSE IF task.dueDate # NullDate THEN DueMidnight(task) <= Today
        ELSE TRUE
    ELSE IF task.recurring # NullStr THEN FALSE
    ELSE IF task.dueDate # NullDate /\ category # "backburner" THEN
        CASE category = "today" -> DueMidnight(task) <= Today
          [] category = "thisWeek" ->
                DueMidnight(task) > Today /\ DueMidnight(task) <= EndOfThisWeek
          [] category = "nextWeek" ->
                DueMidnight(task) > EndOfThisWeek /\ DueMidnight(task) <= EndOfNextWeek
          [] category = "beyond" -> DueMidnight(task) > EndOfNextWeek
          [] OTHER -> FALSE
    ELSE task.category = category

\* the filter with every task without a dueDate listed under 'today'
CategoryRuleUndatedUnderToday(task, category) ==
    IF category = "recurring" THEN
        IF task.recurring = NullStr THEN FALSE
        ELSE IF task.completed /\ (task.completedAt = NullTime \/ ~CompletedToday(task))
            THEN FALSE
        ELSE IF task.dueDate # NullDate THEN DueMidnight(task) <= Today
        ELSE TRUE
    ELSE IF task.recurring # NullStr THEN FALSE
    ELSE IF task.dueDate # NullDate THEN
        CASE category = "today" -> DueMidnight(task) <= Today
          [] category = "thisWeek" ->
                DueMidnight(task) > Today /\ DueMidnight(task) <= EndOfThisWeek
          [] category = "nextWeek" ->
                DueMidnight(task) > EndOfThisWeek /\ DueMidnight(task) <= EndOfNextWeek
          [] category = "beyond" -> DueMidnight(task) > EndOfNextWeek
          [] OTHER -> FALSE
    ELSE category = "today"

\* the part of the filter after the completed-task gate (tasks.js 235-282)
CategoryRule(task, category) ==
    IF category = "recurring" THEN
        IF task.recurring = NullStr THEN FALSE
        ELSE IF task.completed /\ (task.completedAt = NullTime \/ ~CompletedToday(task))
            THEN FALSE
        ELSE IF task.dueDate # NullDate THEN DueMidnight(task) <= Today
        ELSE TRUE
    ELSE IF task.recurring # NullStr THEN FALSE
    ELSE IF task.dueDate # NullDate THEN
        CASE category = "today" -> DueMidnight(task) <= Today
          [] category = "thisWeek" ->
                DueMidnight(task) > Today /\ DueMidnight(task) <= EndOfThisWeek
          [] category = "nextWeek" ->
                DueMidnight(task) > EndOfThisWeek /\ DueMidnight(task) <= EndOfNextWeek
          [] category = "beyond" -> DueMidnight(task) > EndOfNextWeek
          [] OTHER -> FALSE
    ELSE task.category = category

\* the filter callback of getTasksByCategory(type, category)
InCategory(task, category) ==
    IF task.completed THEN
        IF category = "completed" THEN TRUE
        ELSE IF task.completedAt # NullTime THEN
            (IF ~CompletedToday(task) THEN FALSE ELSE CategoryRule(task, category))
        ELSE FALSE
    ELSE CategoryRule(task, category)

\* the filter callback of getTodayTasks(type)
InTodayTasks(task) ==
    LET rest == IF task.dueDate # NullDate THEN DueMidnight(task) <= Today
                ELSE task.category = "today"
    IN  IF task.completed THEN
            (IF task.completedAt # NullTime THEN
                (IF ~CompletedToday(task) THEN FALSE ELSE rest)
             ELSE FALSE)
        ELSE rest

\* (a.order || 0): a missing order sorts as 0
OrderKey(task) == IF task.order = NoOrder THEN 0 ELSE task.order

RECURSIVE InsertByOrder(_, _)
InsertByOrder(sorted, task) ==
    IF sorted = <<>> THEN <<task>>
    ELSE LET n == Len(sorted)
         IN  IF OrderKey(sorted[n]) <= OrderKey(task) THEN Append(sorted, task)
             ELSE Append(InsertByOrder(SubSeq(sorted, 1, n - 1), task), sorted[n])

RECURSIVE SortByOrder(_)
\* .sort((a, b) => (a.order || 0) - (b.order || 0)): Array.prototype.sort is stable
SortByOrder(list) ==
    IF list = <<>> THEN <<>>
    ELSE InsertByOrder(SortByOrder(SubSeq(list, 1, Len(list) - 1)), list[Len(list)])

getTasksByCategory(type, category) ==
    SortByOrder(SelectSeq(tasks[type], LAMBDA task : InCategory(task, category)))

getTodayTasks(type) ==
    SortByOrder(SelectSeq(tasks[type], LAMBDA task : InTodayTasks(task)))

-----------------------------------------------------------------------------
(* Values the variables hold while a specification does not use them *)

TaskTypes == {"work", "personal"}
StoredCategories == {"today", "thisWeek", "nextWeek", "beyond", "backburner"}

NoDocs == [i \in {} |-> i]
NoCalc == [pattern |-> NullStr, date |-> NullDate, result |-> NullDate]
NoLast == [op |-> "none", type |-> NullStr, id |-> 0, had |-> FALSE, outcome |-> "none",
           toast |-> <<>>, created |-> {}, rejected |-> 0]
\* `priorities = {}`: no category has a list until the categories listener runs
NoPriorities == [c \in {} |-> <<>>]
\* no priorities document written yet: the listener reads it as items []
NoPriorityDocs == [t \in TaskTypes |-> [items |-> <<>>, updatedAt |-> NullTime]]

\* a task document as addTask writes it (tasks.js 42-53), before any update
NewTask(id, title, type, category, dueDate, recurring, recurringPattern, priorityId) ==
    [id |-> id, title |-> title, type |-> type, category |-> category,
     dueDate |-> dueDate, recurring |-> recurring,
     recurringPattern |-> recurringPattern, priorityId |-> priorityId,
     completed |-> FALSE, completedAt |-> NullTime, createdAt |-> id,
     updatedAt |-> NullTime, order |-> NoOrder]

NoProbe == [task |-> NewTask(0, <<>>, "work", "today", NullDate, NullStr, NullStr, NullStr),
            done |-> FALSE, sections |-> {}, dashboard |-> FALSE]

\* 2024-01-01T12:00Z, a Monday
StartOfModel == MakeDay(1, 1) * 24 + 12

-----------------------------------------------------------------------------
(* The task store (Firestore collection 'tasks') and the operations of     *)
(* tasks.js on it.  A write either succeeds or is rejected by the store    *)
(* (input ok); update() of a document that does not exist is rejected,     *)
(* delete() of one succeeds.  serverTimestamp() is the clock.              *)

\* title.trim()
RECURSIVE TrimLeft(_)
TrimLeft(str) == IF str # <<>> /\ Head(str) = " " THEN TrimLeft(Tail(str)) ELSE str
RECURSIVE TrimRight(_)
TrimRight(str) ==
    IF str # <<>> /\ str[Len(str)] = " " THEN TrimRight(SubSeq(str, 1, Len(str) - 1))
    ELSE str
Trim(str) == TrimRight(TrimLeft(str))

\* { ...doc, ...updates }
Merge(doc, updates) ==
    [k \in DOMAIN doc |-> IF k \in DOMAIN updates THEN updates[k] ELSE doc[k]]

RECURSIVE QueryFrom(_, _, _)
QueryFrom(store, type, id) ==
    IF id = 0 THEN <<>>
    ELSE (IF id \in DOMAIN store /\ store[id].type = type THEN <<store[id]>> ELSE <<>>)
            \o QueryFrom(store, type, id - 1)

\* .where('type', '==', type).orderBy('createdAt', 'desc'): newest first
Query(store, type) == QueryFrom(store, type, nextId)

\* what an operation leaves behind for the caller and the user
\* (had: the document or item the operation names was there when it ran;
\* rejected: the number of its writes the store rejected)
Outcome(op, type, id, had, outcome, toast, created, rejected) ==
    [op |-> op, type |-> type, id |-> id, had |-> had, outcome |-> outcome,
     toast |-> toast, created |-> created, rejected |-> rejected]

\* every operation of the user takes one unit of the behaviour's budget
Budget == ops > 0 /\ ops' = ops - 1

OtherVars == <<tz, calc, probe, pdb, priorities, generated, categories, listeners>>

-----------------------------------------------------------------------------
(* Snapshot listeners.  onSnapshot registers a subscription with the store  *)
(* and returns its unsubscribe handle; the modules keep the handles in      *)
(* taskListeners, priorityListeners and categoriesListener.  A listener is  *)
(* named by its collection, its key (the task type or the category) and the *)
(* number of the call that registered it.                                   *)

Registered(kind, keys, n) == {[kind |-> kind, key |-> k, id |-> n] : k \in keys}

\* before app.js has started the modules; `awaiting` records that the
\* categories listener registered last has not run a callback yet
NoListeners ==
    [registered |-> 0, active |-> {}, taskListeners |-> {}, priorityListeners |-> {},
     categoriesListener |-> {}, awaiting |-> FALSE]

\* loadTasks(): unsubscribe the handles kept, one listener per task type
loadTasks(ls) ==
    LET n == ls.registered + 1
        new == Registered("tasks", TaskTypes, n)
    IN  [ls EXCEPT !.registered = n,
                   !.active = (@ \ ls.taskListeners) \cup new,
                   !.taskListeners = new]

\* loadPriorities(), up to the registration of the categories listener
loadPriorities(ls) ==
    LET n == ls.registered + 1
        new == Registered("categories", {"categories"}, n)
    IN  [ls EXCEPT !.registered = n,
                   !.active = (@ \ (ls.priorityListeners \cup ls.categoriesListener)) \cup new,
                   !.priorityListeners = {},
                   !.categoriesListener = new,
                   !.awaiting = TRUE]

\* loadPrioritiesForCategories() without its unsubscribe loop
loadPrioritiesForCategoriesKeepsOld(ls, cats) ==
    LET n == ls.registered + 1
        new == Registered("priorities", cats, n)
    IN  [ls EXCEPT !.registered = n, !.active = @ \cup new, !.priorityListeners = new]

\* loadPrioritiesForCategories(): one listener per category of `categories`
loadPrioritiesForCategories(ls, cats) ==
    LET n == ls.registered + 1
        new == Registered("priorities", cats, n)
    IN  [ls EXCEPT !.registered = n,
                   !.active = (@ \ ls.priorityListeners) \cup new,
                   !.priorityListeners = new]

\* app.js: loadTasks(); loadPriorities()
StartedListeners == loadPriorities(loadTasks(NoListeners))

\* and the categories listener has run its first callback
ListeningListeners ==
    [loadPrioritiesForCategories(StartedListeners, TaskTypes) EXCEPT !.awaiting = FALSE]

HasListener(kind, key) == \E l \in listeners.active : l.kind = kind /\ l.key = key

\* the onSnapshot callback of loadTasks for one type
TaskSnapshot(type) ==
    /\ HasListener("tasks", type)
    /\ tasks[type] # Query(db, type)
    /\ tasks' = [tasks EXCEPT ![type] = Query(db, type)]
    /\ UNCHANGED <<now, db, nextId, last, ops, OtherVars>>

NoOptions ==
    [category |-> NullStr, dueDate |-> NullDate, recurring |-> NullStr,
     recurringPattern |-> NullStr, priorityId |-> NullStr]

\* addTask(type, title, options)
addTask(op, type, title, options, ok) ==
    LET id == nextId + 1
        task == NewTask(id, Trim(title), type,
                        IF options.category # NullStr THEN options.category ELSE "today",
                        options.dueDate, options.recurring, options.recurringPattern,
                        options.priorityId)
    IN  /\ Budget
        /\ nextId < MaxTasks
        /\ IF ok
           THEN /\ db' = db @@ (id :> task)
                /\ nextId' = id
                /\ last' = Outcome(op, type, id, FALSE, "ok", <<"Task added!">>, {id}, 0)
           ELSE /\ UNCHANGED <<db, nextId>>
                /\ last' = Outcome(op, type, 0, FALSE, "rejected",
                                   <<"Failed to add task">>, {}, 1)
        /\ UNCHANGED <<now, tasks, OtherVars>>

AddTask(type, title, options, ok) == addTask("addTask", type, title, options, ok)

\* showAddTaskInput / quick add (app.js): addTask is called only with a title
\* that is not empty after trimming
ShowAddTaskInput(type, value, ok) ==
    LET title == Trim(value)
    IN  IF title # <<>>
        THEN addTask("showAddTaskInput", type, title, NoOptions, ok)
        ELSE /\ Budget
             /\ last' = Outcome("showAddTaskInput", type, 0, FALSE, "noop", <<>>, {}, 0)
             /\ UNCHANGED <<now, db, nextId, tasks, OtherVars>>

\* updateTask(taskId, updates): whether the write goes through
UpdateAccepted(taskId, ok) == ok /\ taskId \in DOMAIN db

\* doc.update({ ...updates, updatedAt: serverTimestamp() })
Updated(store, taskId, updates) ==
    [store EXCEPT ![taskId] = Merge(Merge(store[taskId], updates), [updatedAt |-> now])]

\* createNextRecurrence with the due date copied instead of advanced
NextRecurrenceTaskSameDueDate(task, id) ==
    NewTask(id, task.title, task.type, "today", task.dueDate,
            task.recurring, task.recurringPattern, task.priorityId)

\* the document createNextRecurrence(task) adds
NextRecurrenceTask(task, id) ==
    NewTask(id, task.title, task.type, "today",
            calculateNextRecurrence(task.recurring, task.dueDate),
            task.recurring, task.recurringPattern, task.priorityId)

\* completeTask with completedAt kept on un-completing
CompletionKeepsCompletedAt(task) ==
    [completed |-> ~task.completed, completedAt |-> now]

\* the update completeTask writes (tasks.js 87-93)
Completion(task) ==
    [completed |-> ~task.completed,
     completedAt |-> IF ~task.completed THEN now ELSE NullTime]

CachedTask(type, taskId) ==
    LET hits == SelectSeq(tasks[type], LAMBDA t : t.id = taskId)
    IN  IF hits = <<>> THEN <<>> ELSE <<hits[1]>>

\* completeTask with the successor added before the completion write is
\* awaited, for a cached task that is recurring and not completed
CompleteTaskSuccessorFirst(taskId, type, ok, okNext) ==
    LET found == CachedTask(type, taskId)
        id == nextId + 1
        accepted == UpdateAccepted(taskId, ok)
    IN  /\ Budget
        /\ found # <<>> /\ ~found[1].completed /\ found[1].recurring # NullStr
        /\ nextId < MaxTasks
        /\ db' = (IF accepted THEN Updated(db, taskId, Completion(found[1])) ELSE db)
                    @@ (id :> NextRecurrenceTask(found[1], id))
        /\ nextId' = id
        /\ last' = Outcome("completeTask", type, taskId, TRUE,
                           IF accepted THEN "ok" ELSE "rejected",
                           IF accepted THEN <<>> ELSE <<"Failed to update task">>,
                           {id}, IF accepted THEN 0 ELSE 1)
        /\ UNCHANGED <<now, tasks, OtherVars>>

\* completeTask(taskId, type), with createNextRecurrence(task)
CompleteTask(taskId, type, ok, okNext) ==
    LET found == CachedTask(type, taskId)
    IN  IF found = <<>>
        THEN /\ Budget
             /\ last' = Outcome("completeTask", type, taskId, FALSE, "noop", <<>>, {}, 0)
             /\ UNCHANGED <<now, db, nextId, tasks, OtherVars>>
        ELSE
        LET task == found[1]
            newCompleted == ~task.completed
            completion == Completion(task)
            id == nextId + 1
        IN  /\ Budget
            /\ UNCHANGED <<now, tasks, OtherVars>>
            /\ IF ~UpdateAccepted(taskId, ok)
               THEN /\ UNCHANGED <<db, nextId>>
                    /\ last' = Outcome("completeTask", type, taskId, TRUE, "rejected",
                                       <<"Failed to update task">>, {}, 1)
               ELSE IF newCompleted /\ task.recurring # NullStr
               THEN /\ nextId < MaxTasks
                    /\ IF okNext
                       THEN /\ db' = Updated(db, taskId, completion)
                                        @@ (id :> NextRecurrenceTask(task, id))
                            /\ nextId' = id
                            /\ last' = Outcome("completeTask", type, taskId, TRUE, "ok",
                                               <<>>, {id}, 0)
                       ELSE /\ db' = Updated(db, taskId, completion)
                            /\ UNCHANGED nextId
                            /\ last' = Outcome("completeTask", type, taskId, TRUE, "ok",
                                               <<>>, {}, 1)
               ELSE /\ db' = Updated(db, taskId, completion)
                    /\ UNCHANGED nextId
                    /\ last' = Outcome("completeTask", type, taskId, TRUE, "ok", <<>>, {}, 0)

\* deleteTask(taskId)
DeleteTask(taskId, ok) ==
    /\ Budget
    /\ IF ok
       THEN /\ db' = [i \in DOMAIN db \ {taskId} |-> db[i]]
            /\ last' = Outcome("deleteTask", NullStr, taskId, taskId \in DOMAIN db, "ok",
                               <<"Task deleted">>, {}, 0)
       ELSE /\ UNCHANGED db
            /\ last' = Outcome("deleteTask", NullStr, taskId, taskId \in DOMAIN db,
                               "rejected", <<"Failed to delete task">>, {}, 1)
    /\ UNCHANGED <<now, nextId, tasks, OtherVars>>

\* an updateTask call followed by a toast (moveTask, setRecurring, the date
\* picker's Save): the toast is shown only when the update went through
UpdateThenToast(op, taskId, updates, toast, ok) ==
    /\ Budget
    /\ IF UpdateAccepted(taskId, ok)
       THEN /\ db' = Updated(db, taskId, updates)
            /\ last' = Outcome(op, NullStr, taskId, TRUE, "ok", <<toast>>, {}, 0)
       ELSE /\ UNCHANGED db
            /\ last' = Outcome(op, NullStr, taskId, taskId \in DOMAIN db, "rejected",
                               <<"Failed to update task">>, {}, 1)
    /\ UNCHANGED <<now, nextId, tasks, OtherVars>>

MoveTargets == {"tomorrow", "nextWeek", "backburner"}

\* moveTask(taskId, newCategory)
MoveTask(taskId, newCategory, ok) ==
    LET newDueDate ==
            CASE newCategory = "tomorrow" -> ToISODate(setDate(now, getDate(now) + 1))
              [] newCategory = "nextWeek" -> ToISODate(setDate(now, getDate(now) + 7))
              [] OTHER -> NullDate
        category ==
            CASE newCategory = "tomorrow" -> "today"
              [] newCategory = "nextWeek" -> "thisWeek"
              [] OTHER -> newCategory
    IN  UpdateThenToast("moveTask", taskId,
                        [category |-> category, dueDate |-> newDueDate],
                        "Task moved", ok)

\* setRecurring(taskId, pattern), and 'Remove Recurring' (pattern null)
SetRecurring(taskId, pattern, ok) ==
    UpdateThenToast("setRecurring", taskId,
                    [recurring |-> pattern, recurringPattern |-> pattern],
                    IF pattern = NullStr THEN "Recurring removed" ELSE "Task set to repeat",
                    ok)

\* showDatePicker(taskId), Save: the picker opens only for a task in the cache
SetDueDate(taskId, newDate, ok) ==
    /\ \E type \in TaskTypes : CachedTask(type, taskId) # <<>>
    /\ UpdateThenToast("setDueDate", taskId, [dueDate |-> newDate],
                       IF newDate = NullDate THEN "Due date cleared" ELSE "Due date set",
                       ok)

-----------------------------------------------------------------------------
(* Drag reorder of a rendered task list (onDragEnd)                        *)

\* Array.prototype.splice(start, deleteCount, ...items) with 0-based start:
\* the array that is left
SpliceStart(list, start) ==
    IF start < 0 THEN (IF Len(list) + start < 0 THEN 0 ELSE Len(list) + start)
    ELSE IF start > Len(list) THEN Len(list) ELSE start

SpliceRemoved(list, start, deleteCount) ==
    LET from == SpliceStart(list, start)
        count == IF deleteCount > Len(list) - from THEN Len(list) - from ELSE deleteCount
    IN  SubSeq(list, from + 1, from + count)

Splice(list, start, deleteCount, items) ==
    LET from == SpliceStart(list, start)
        count == IF deleteCount > Len(list) - from THEN Len(list) - from ELSE deleteCount
    IN  SubSeq(list, 1, from) \o items \o SubSeq(list, from + count + 1, Len(list))

\* the task lists the views render: the six sections of the work / personal
\* view and the dashboard's today list
Views == Sections \cup {"dashboard"}

RenderedList(type, view) ==
    IF view = "dashboard" THEN getTodayTasks(type) ELSE getTasksByCategory(type, view)

RECURSIVE WriteOrdersUntilRejected(_, _, _, _)
\* the writes awaited one after the other: none is issued after a rejected one
WriteOrdersUntilRejected(store, elements, i, rejected) ==
    IF elements = <<>> THEN store
    ELSE LET taskId == Head(elements).id
         IN  IF taskId \in DOMAIN store /\ taskId \notin rejected
             THEN WriteOrdersUntilRejected(Updated(store, taskId, [order |-> i]),
                                           Tail(elements), i + 1, rejected)
             ELSE store

RECURSIVE WriteOrders(_, _, _, _)
\* updateTask(el.dataset.taskId, { order: i }) for every element, from index i
WriteOrders(store, elements, i, rejected) ==
    IF elements = <<>> THEN store
    ELSE LET taskId == Head(elements).id
             written == IF taskId \in DOMAIN store /\ taskId \notin rejected
                        THEN Updated(store, taskId, [order |-> i])
                        ELSE store
         IN  WriteOrders(written, Tail(elements), i + 1, rejected)

\* onDragEnd: the dragged element (never a completed task) dropped at
\* newIndex of its list; rejected are the tasks whose write the store rejects
DragReorder(type, view, initialIndex, newIndex, rejected) ==
    LET rendered == RenderedList(type, view)
        element == rendered[initialIndex + 1]
        taskElements == Splice(Splice(rendered, initialIndex, 1, <<>>),
                               newIndex, 0, <<element>>)
        failed == {i \in 1..Len(taskElements) :
                      taskElements[i].id \notin DOMAIN db \/ taskElements[i].id \in rejected}
    IN  /\ Budget
        /\ initialIndex \in 0..Len(rendered) - 1
        /\ newIndex \in 0..Len(rendered) - 1
        /\ ~element.completed
        /\ newIndex # initialIndex
        /\ rejected \subseteq {rendered[i].id : i \in 1..Len(rendered)}
        /\ db' = WriteOrders(db, taskElements, 0, rejected)
        /\ last' = IF failed = {}
                   THEN Outcome("onDragEnd", type, element.id, TRUE, "ok",
                                <<"Tasks reordered">>, {}, 0)
                   ELSE Outcome("onDragEnd", type, element.id, TRUE, "rejected",
                                [i \in 1..Cardinality(failed) |-> "Failed to update task"],
                                {}, Cardinality(failed))
        /\ UNCHANGED <<now, nextId, tasks, OtherVars>>

-----------------------------------------------------------------------------
(* The priority lists (part_001): each category's list is one Firestore    *)
(* document priorities/<category> holding the whole array.  An operation   *)
(* changes the local array `priorities[type]` and then saves it; reading   *)
(* `priorities[type]` before the categories listener has run is a          *)
(* TypeError.                                                              *)

\* the success callback of the categories listener, the document's list
\* being `list` (the default when the document has none): every category
\* gets a list, the priority listeners are registered anew
CategoriesCallback(list) ==
    /\ categories' = list
    /\ priorities' = [c \in DOMAIN priorities \cup list |->
                         IF c \in DOMAIN priorities THEN priorities[c] ELSE <<>>]
    /\ listeners' = [loadPrioritiesForCategories(listeners, list) EXCEPT !.awaiting = FALSE]

\* the categories listener is subscribed
CategoriesListening ==
    listeners.categoriesListener # {} /\ listeners.categoriesListener \subseteq listeners.active

\* categoriesListener callback, no categories document stored
CategoriesSnapshot ==
    /\ CategoriesListening
    /\ DOMAIN priorities # TaskTypes
    /\ CategoriesCallback(TaskTypes)
    /\ UNCHANGED <<tz, now, calc, probe, db, nextId, tasks, pdb, generated, last, ops>>

\* the error callback of the categories listener, which the store calls
\* when it ends the subscription
CategoriesError ==
    /\ CategoriesListening
    /\ categories' = TaskTypes
    /\ listeners' =
          LET ended == [listeners EXCEPT !.active = @ \ listeners.categoriesListener,
                                         !.awaiting = FALSE]
          IN  loadPrioritiesForCategories(ended, TaskTypes)
    /\ UNCHANGED <<tz, now, calc, probe, db, nextId, tasks, pdb, priorities, generated,
                   last, ops>>

\* doc.exists ? doc.data().items || [] : []
StoredItems(type) == IF type \in DOMAIN pdb THEN pdb[type].items ELSE <<>>

\* the onSnapshot callback of loadPrioritiesForCategories for one category
PrioritiesSnapshot(type) ==
    /\ HasListener("priorities", type)
    /\ IF type \in DOMAIN priorities THEN priorities[type] # StoredItems(type) ELSE TRUE
    /\ priorities' = [c \in DOMAIN priorities \cup {type} |->
                         IF c = type THEN StoredItems(type) ELSE priorities[c]]
    /\ UNCHANGED <<categories, listeners, tz, now, calc, probe, db, nextId, tasks, pdb,
                   generated, last, ops>>

\* savePriorities(type) of the list `items`, and what the operation reports
SavePriorities(op, type, id, had, items, toast, created, ok) ==
    IF ok
    THEN /\ pdb' = [pdb EXCEPT ![type] = [items |-> items, updatedAt |-> now]]
         /\ last' = Outcome(op, type, id, had, "ok", <<toast>>, created, 0)
    ELSE /\ UNCHANGED pdb
         /\ last' = Outcome(op, type, id, had, "rejected",
                            <<"Failed to save priorities">>, {}, 1)

\* priorities[type] is undefined: the operation throws before changing anything
ThrowsTypeError(op, type, id) ==
    /\ last' = Outcome(op, type, id, FALSE, "threw", <<>>, {}, 0)
    /\ UNCHANGED <<pdb, priorities>>

PriorityIds(list) == {list[i].id : i \in 1..Len(list)}

\* the priority is in the local list or in the stored one
HasPriority(type, priorityId) ==
    \/ type \in DOMAIN priorities /\ priorityId \in PriorityIds(priorities[type])
    \/ priorityId \in PriorityIds(pdb[type].items)

\* priorities[type].forEach((p, i) => p.order = i)
RenumberNothing(list) == list
Renumber(list) == [i \in 1..Len(list) |-> [list[i] EXCEPT !.order = i - 1]]

\* addPriority(type, title)
addPriority(op, type, title, ok) ==
    LET id == generated + 1
    IN  /\ Budget
        /\ generated < MaxPriorities
        /\ generated' = id
        /\ IF type \notin DOMAIN priorities
           THEN ThrowsTypeError(op, type, id)
           ELSE LET newPriority == [id |-> id, title |-> Trim(title),
                                    order |-> Len(priorities[type])]
                    items == Append(priorities[type], newPriority)
                IN  /\ priorities' = [priorities EXCEPT ![type] = items]
                    /\ SavePriorities(op, type, id, FALSE, items, "Priority added!",
                                      {id}, ok)
        /\ UNCHANGED <<categories, listeners, tz, now, calc, probe, db, nextId, tasks>>

AddPriority(type, title, ok) == addPriority("addPriority", type, title, ok)

\* addPriorityInManager / startAddingPriority: addPriority is called only
\* with a title that is not empty after trimming
AddPriorityInManager(category, value, ok) ==
    LET title == Trim(value)
    IN  IF title # <<>>
        THEN addPriority("addPriorityInManager", category, title, ok)
        ELSE /\ Budget
             /\ last' = Outcome("addPriorityInManager", category, 0, FALSE, "noop",
                                <<>>, {}, 0)
             /\ UNCHANGED <<categories, listeners, tz, now, calc, probe, db, nextId, tasks, pdb, priorities,
                            generated>>

\* priorities[type].filter(p => p.id !== priorityId)
IndexOfPriority(list, priorityId) ==
    IF priorityId \in PriorityIds(list)
    THEN (CHOOSE i \in 1..Len(list) : list[i].id = priorityId) - 1
    ELSE 0 - 1
WithoutPriorityBySplice(list, priorityId) ==
    Splice(list, IndexOfPriority(list, priorityId), 1, <<>>)
WithoutPriority(list, priorityId) == SelectSeq(list, LAMBDA p : p.id # priorityId)

\* deletePriority(type, priorityId)
DeletePriority(type, priorityId, ok) ==
    /\ Budget
    /\ IF type \notin DOMAIN priorities
       THEN ThrowsTypeError("deletePriority", type, priorityId)
       ELSE LET items == Renumber(WithoutPriority(priorities[type], priorityId))
            IN  /\ priorities' = [priorities EXCEPT ![type] = items]
                /\ SavePriorities("deletePriority", type, priorityId,
                                  HasPriority(type, priorityId), items,
                                  "Priority removed", {}, ok)
    /\ UNCHANGED <<categories, listeners, tz, now, calc, probe, db, nextId, tasks, generated>>

\* the value `undefined` as an element of a list: what `const [removed]`
\* holds when splice removed nothing
Undefined == [id |-> 0, title |-> <<>>, order |-> NoOrder]

\* priorities[cat] read without a fallback: a method call on undefined
ListOrEmptyUnguarded(cat) ==
    IF cat \in DOMAIN priorities THEN [threw |-> FALSE, list |-> priorities[cat]]
    ELSE [threw |-> TRUE, list |-> <<>>]

\* priorities[cat] || []
ListOrEmpty(cat) ==
    [threw |-> FALSE, list |-> IF cat \in DOMAIN priorities THEN priorities[cat] ELSE <<>>]

RECURSIVE InsertPriority(_, _)
InsertPriority(sorted, p) ==
    IF sorted = <<>> THEN <<p>>
    ELSE IF p.order < Head(sorted).order THEN <<p>> \o sorted
    ELSE <<Head(sorted)>> \o InsertPriority(Tail(sorted), p)

RECURSIVE SortPriorities(_)
\* list.sort((a, b) => a.order - b.order), a stable sort
SortPriorities(list) ==
    IF list = <<>> THEN <<>>
    ELSE InsertPriority(SortPriorities(SubSeq(list, 1, Len(list) - 1)), list[Len(list)])

\* sorted.map(p => ... p.id ... p.title ...): the numbered entries of one
\* category; reading a field of an undefined element is a TypeError
Entries(read) ==
    IF read.threw \/ \E i \in 1..Len(read.list) : read.list[i] = Undefined
    THEN [threw |-> TRUE, html |-> <<>>]
    ELSE LET sorted == SortPriorities(read.list)
         IN  [threw |-> FALSE,
              html |-> [i \in 1..Len(sorted) |->
                          [id |-> sorted[i].id, num |-> i, title |-> sorted[i].title]]]

\* renderPriorityStrip: a row of chips per category (renderPriorityList)
renderPriorityStrip == [cat \in categories |-> Entries(ListOrEmpty(cat))]

\* renderPrioritiesManager: the items of each category.  It sorts the cached
\* list in place; the lists the store holds are in order already
renderPrioritiesManager == [cat \in categories |-> Entries(ListOrEmpty(cat))]

\* renderMobilePriorities: the three layouts read the lists the same way
renderMobilePriorities == [cat \in categories |-> Entries(ListOrEmpty(cat))]

\* getPriorityName(priorityId, type): find stops at the first match and
\* throws on an undefined element before it
getPriorityName(priorityId, type) ==
    LET read == ListOrEmpty(type)
        list == read.list
        hits == {i \in 1..Len(list) : list[i] # Undefined /\ list[i].id = priorityId}
        holes == {i \in 1..Len(list) : list[i] = Undefined}
        first == CHOOSE i \in hits : \A j \in hits : i <= j
    IN  IF read.threw \/ \E i \in holes : \A j \in hits : i < j
        THEN [threw |-> TRUE, title |-> <<>>]
        ELSE [threw |-> FALSE, title |-> IF hits = {} THEN <<>> ELSE list[first].title]

\* priorities[type].splice(fromIndex, 1) then .splice(toIndex, 0, removed)
MoveBySwap(list, fromIndex, toIndex) ==
    [i \in 1..Len(list) |-> IF i = fromIndex + 1 THEN list[toIndex + 1]
                            ELSE IF i = toIndex + 1 THEN list[fromIndex + 1]
                            ELSE list[i]]
Move(list, fromIndex, toIndex) ==
    LET taken == SpliceRemoved(list, fromIndex, 1)
        removed == IF taken = <<>> THEN Undefined ELSE taken[1]
    IN  Splice(Splice(list, fromIndex, 1, <<>>), toIndex, 0, <<removed>>)

\* forEach((p, i) => p.order = i) on a list that may hold `undefined`: the
\* elements before the first `undefined` are renumbered, then it throws
FirstUndefined(list) ==
    IF \E i \in 1..Len(list) : list[i] = Undefined
    THEN CHOOSE i \in 1..Len(list) :
            list[i] = Undefined /\ \A j \in 1..i - 1 : list[j] # Undefined
    ELSE Len(list) + 1
RenumberUntilThrow(list) ==
    [i \in 1..Len(list) |->
        IF i < FirstUndefined(list) THEN [list[i] EXCEPT !.order = i - 1] ELSE list[i]]

\* reorderPriorities(type, fromIndex, toIndex), whatever the indexes are
reorderPriorities(type, fromIndex, toIndex, ok) ==
    /\ Budget
    /\ IF type \notin DOMAIN priorities
       THEN ThrowsTypeError("reorderPriorities", type, 0)
       ELSE LET list == priorities[type]
                valid == /\ fromIndex \in 0..Len(list) - 1
                         /\ toIndex \in 0..Len(list) - 1
                moved == Move(list, fromIndex, toIndex)
                items == RenumberUntilThrow(moved)
                id == IF valid THEN list[fromIndex + 1].id ELSE 0
            IN  /\ priorities' = [priorities EXCEPT ![type] = items]
                /\ IF FirstUndefined(moved) <= Len(moved)
                   THEN /\ last' = Outcome("reorderPriorities", type, id, valid, "threw",
                                           <<>>, {}, 0)
                        /\ UNCHANGED pdb
                   ELSE SavePriorities("reorderPriorities", type, id, valid, items,
                                       "Priority reordered", {}, ok)
    /\ UNCHANGED <<categories, listeners, tz, now, calc, probe, db, nextId, tasks, generated>>

\* the drop handler of a priority item on another of its category: both
\* indexes are positions of items of the list
ReorderPriorities(type, fromIndex, toIndex, ok) ==
    /\ type \in DOMAIN priorities
    /\ fromIndex \in 0..Len(priorities[type]) - 1
    /\ toIndex \in 0..Len(priorities[type]) - 1
    /\ fromIndex # toIndex
    /\ reorderPriorities(type, fromIndex, toIndex, ok)

\* updatePriority(type, priorityId, newTitle)
UpdatePriority(type, priorityId, newTitle, ok) ==
    /\ Budget
    /\ IF type \notin DOMAIN priorities
       THEN ThrowsTypeError("updatePriority", type, priorityId)
       ELSE LET list == priorities[type]
                index == IndexOfPriority(list, priorityId)
                items == [list EXCEPT ![index + 1].title = Trim(newTitle)]
            IN  IF index = 0 - 1
                THEN /\ last' = Outcome("updatePriority", type, priorityId, FALSE, "noop",
                                        <<>>, {}, 0)
                     /\ UNCHANGED <<pdb, priorities>>
                ELSE /\ priorities' = [priorities EXCEPT ![type] = items]
                     /\ IF ok
                        THEN /\ pdb' = [pdb EXCEPT ![type] =
                                           [items |-> items, updatedAt |-> now]]
                             /\ last' = Outcome("updatePriority", type, priorityId, TRUE,
                                                "ok", <<>>, {}, 0)
                        ELSE /\ UNCHANGED pdb
                             /\ last' = Outcome("updatePriority", type, priorityId, TRUE,
                                                "rejected",
                                                <<"Failed to save priorities">>, {}, 1)
    /\ UNCHANGED <<categories, listeners, tz, now, calc, probe, db, nextId, tasks, generated>>

\* movePriorityToCategory(priorityId, fromCategory, toCategory, beforePriorityId)
\* for two different categories; beforePriorityId 0 is the default null.  The
\* source list is saved first, the target list only when that went through.
MovePriorityToCategory(priorityId, fromCategory, toCategory, beforePriorityId, okFrom, okTo) ==
    /\ Budget
    /\ fromCategory # toCategory
    /\ IF fromCategory \notin DOMAIN priorities
       THEN ThrowsTypeError("movePriorityToCategory", fromCategory, priorityId)
       ELSE LET fromPriorities == priorities[fromCategory]
                priorityIndex == IndexOfPriority(fromPriorities, priorityId)
                priority == fromPriorities[priorityIndex + 1]
                source == Renumber(Splice(fromPriorities, priorityIndex, 1, <<>>))
                toPriorities == IF toCategory \in DOMAIN priorities
                                THEN priorities[toCategory] ELSE <<>>
                targetIndex == IndexOfPriority(toPriorities, beforePriorityId)
                target == Renumber(IF beforePriorityId # 0 /\ targetIndex # 0 - 1
                                   THEN Splice(toPriorities, targetIndex, 0, <<priority>>)
                                   ELSE Append(toPriorities, priority))
                saved == [items |-> source, updatedAt |-> now]
            IN  IF priorityIndex = 0 - 1
                THEN /\ last' = Outcome("movePriorityToCategory", fromCategory, priorityId,
                                        FALSE, "noop", <<>>, {}, 0)
                     /\ UNCHANGED <<pdb, priorities>>
                ELSE /\ priorities' =
                           [c \in DOMAIN priorities \cup {toCategory} |->
                               IF c = fromCategory THEN source
                               ELSE IF c = toCategory THEN target
                               ELSE priorities[c]]
                     /\ IF okFrom /\ okTo
                        THEN /\ pdb' = [pdb EXCEPT
                                          ![fromCategory] = saved,
                                          ![toCategory] = [items |-> target,
                                                           updatedAt |-> now]]
                             /\ last' = Outcome("movePriorityToCategory", fromCategory,
                                                priorityId, TRUE, "ok",
                                                <<"Priority moved">>, {}, 0)
                        ELSE /\ pdb' = IF okFrom THEN [pdb EXCEPT ![fromCategory] = saved]
                                       ELSE pdb
                             /\ last' = Outcome("movePriorityToCategory", fromCategory,
                                                priorityId, TRUE, "rejected",
                                                <<"Failed to save priorities">>, {}, 1)
    /\ UNCHANGED <<categories, listeners, tz, now, calc, probe, db, nextId, tasks, generated>>

-----------------------------------------------------------------------------
(* The task model: every operation of tasks.js on the store, the snapshot  *)
(* listeners and the clock                                                 *)

\* the clock moves on by 13 hours, so that the UTC date and the local date
\* under each zone change at different steps
Tick ==
    /\ now < StartOfModel + 13 * MaxTicks
    /\ now' = now + 13
    /\ UNCHANGED <<db, nextId, tasks, last, ops, OtherVars>>

\* what the user types into the add-task input or the priority prompt
TitleInputs == {<<" ">>, <<"a", " ">>}

\* titles passed to addTask / addPriority by a direct call
Titles == {<<"a">>, <<" ", " ">>}

\* scenario B: a weekly task due 2024-01-01, tagged with a priority
WeeklyOptions ==
    [category |-> NullStr, dueDate |-> <<2024, 1, 1>>, recurring |-> "weekly",
     recurringPattern |-> "weekly", priorityId |-> "p1"]

\* direct calls of addTask: scenario B, and a title of blanks without options
AddTaskCalls ==
    {[title |-> <<"a">>, options |-> WeeklyOptions],
     [title |-> <<" ", " ">>, options |-> NoOptions]}

\* the dates the date picker saves
PickerDates == {NullDate, ToISODate(now)}

Init ==
    /\ tz \in Zones
    /\ categories = TaskTypes /\ listeners = StartedListeners
    /\ now = StartOfModel
    /\ calc = NoCalc
    /\ probe = NoProbe
    /\ db = NoDocs /\ nextId = 0
    /\ tasks = [t \in TaskTypes |-> <<>>]
    /\ pdb = NoPriorityDocs
    /\ priorities = NoPriorities /\ generated = 0
    /\ last = NoLast
    /\ ops = MaxOps

TaskIds == 1..nextId
PriorityIdsSoFar == 1..generated

\* the work and personal lists run the same code on disjoint documents; the
\* task model works on the work list
Next ==
    \/ Tick
    \/ \E type \in TaskTypes : TaskSnapshot(type)
    \/ \E call \in AddTaskCalls, ok \in BOOLEAN :
          AddTask("work", call.title, call.options, ok)
    \/ \E value \in TitleInputs, ok \in BOOLEAN : ShowAddTaskInput("work", value, ok)
    \/ \E taskId \in TaskIds, ok \in BOOLEAN, okNext \in BOOLEAN :
          CompleteTask(taskId, "work", ok, okNext)
    \/ \E taskId \in TaskIds, ok \in BOOLEAN : DeleteTask(taskId, ok)
    \/ \E taskId \in TaskIds, target \in MoveTargets, ok \in BOOLEAN :
          MoveTask(taskId, target, ok)
    \/ \E taskId \in TaskIds, pattern \in {"daily", NullStr}, ok \in BOOLEAN :
          SetRecurring(taskId, pattern, ok)
    \/ \E taskId \in TaskIds, newDate \in PickerDates, ok \in BOOLEAN :
          SetDueDate(taskId, newDate, ok)
    \/ \E view \in Views, initialIndex \in 0..MaxTasks, newIndex \in 0..MaxTasks,
          rejected \in SUBSET TaskIds :
          DragReorder("work", view, initialIndex, newIndex, rejected)
    \/ CategoriesSnapshot
    \/ \E type \in TaskTypes : PrioritiesSnapshot(type)
    \/ \E title \in Titles, ok \in BOOLEAN : AddPriority("work", title, ok)
    \/ \E value \in TitleInputs, ok \in BOOLEAN : AddPriorityInManager("work", value, ok)
    \/ \E priorityId \in PriorityIdsSoFar, ok \in BOOLEAN :
          DeletePriority("work", priorityId, ok)
    \/ \E fromIndex \in 0..MaxPriorities, toIndex \in 0..MaxPriorities, ok \in BOOLEAN :
          ReorderPriorities("work", fromIndex, toIndex, ok)

Spec == Init /\ [][Next]_vars

\* a step of the behaviour that runs the operation op
Ran(op) == ops' # ops /\ last'.op = op

\* C4: completeTask on a task it finds not completed and recurring adds, when
\* the store accepts its writes, exactly one task: the same title, type,
\* recurring, recurringPattern and priorityId, not completed, due on
\* calculateNextRecurrence(recurring, dueDate) (weekly, due 2024-01-01:
\* 2024-01-08); every other call of completeTask adds none
C4_CompletionAddsOneSuccessor ==
    [][Ran("completeTask") =>
        LET found == CachedTask(last'.type, last'.id)
            added == DOMAIN db' \ DOMAIN db
        IN  IF /\ found # <<>>
               /\ ~found[1].completed
               /\ found[1].recurring # NullStr
               /\ last'.rejected = 0
            THEN /\ Cardinality(added) = 1
                 /\ db'[last'.id].completed
                 /\ \A n \in added :
                       /\ db'[n].title = found[1].title
                       /\ db'[n].type = found[1].type
                       /\ db'[n].recurring = found[1].recurring
                       /\ db'[n].recurringPattern = found[1].recurringPattern
                       /\ db'[n].priorityId = found[1].priorityId
                       /\ db'[n].completed = FALSE
                       /\ db'[n].completedAt = NullTime
                       /\ db'[n].dueDate =
                             calculateNextRecurrence(found[1].recurring, found[1].dueDate)
                       /\ (found[1].recurring = "weekly" /\ found[1].dueDate = <<2024, 1, 1>>)
                             => db'[n].dueDate = <<2024, 1, 8>>
            ELSE added = {}
    ]_vars

\* C4 witness: scenario B, the weekly task due 2024-01-01 is completed and its
\* successor due 2024-01-08 is in the store
C4_Witness ==
    /\ last.op = "completeTask"
    /\ last.outcome = "ok"
    /\ last.id \in DOMAIN db
    /\ db[last.id].completed
    /\ db[last.id].dueDate = <<2024, 1, 1>>
    /\ \E n \in last.created :
          /\ n \in DOMAIN db
          /\ db[n].recurring = "weekly"
          /\ db[n].dueDate = <<2024, 1, 8>>
          /\ ~db[n].completed

\* C5: in every state of the store, a completed task has a completedAt
\* timestamp and a task that is not completed has completedAt = null
C5_CompletedAtMatchesCompleted ==
    \A id \in DOMAIN db :
        /\ db[id].completed => db[id].completedAt # NullTime /\ db[id].completedAt >= 0
        /\ ~db[id].completed => db[id].completedAt = NullTime

\* C5 witness: a task that was completed has been un-completed by completeTask
C5_Witness ==
    /\ last.op = "completeTask"
    /\ last.outcome = "ok"
    /\ last.id \in DOMAIN db
    /\ ~db[last.id].completed
    /\ db[last.id].completedAt = NullTime

-----------------------------------------------------------------------------
(* Specification of the recurrence calculator alone: every anchor date,    *)
(* pattern and zone, one call each                                         *)

AnchorDates == {ToISODate(d * 24) : d \in 1..MaxAnchorDay} \cup {NullDate}

InitRecurrence ==
    /\ tz \in Zones
    /\ categories = TaskTypes /\ listeners = StartedListeners
    /\ now \in {StartOfModel, StartOfModel + 13}
    /\ calc \in [pattern : Patterns \cup {NullStr, "yearly"}, date : AnchorDates,
                 result : {NullDate}]
    /\ probe = NoProbe
    /\ db = NoDocs /\ nextId = 0
    /\ tasks = [t \in TaskTypes |-> <<>>]
    /\ pdb = NoPriorityDocs
    /\ priorities = NoPriorities /\ generated = 0
    /\ last = NoLast
    /\ ops = 0

CallCalculateNextRecurrence ==
    /\ calc.result = NullDate
    /\ calc' = [calc EXCEPT !.result = calculateNextRecurrence(calc.pattern, calc.date)]
    /\ UNCHANGED <<categories, listeners, tz, now, probe, db, nextId, tasks, pdb, priorities, generated, last, ops>>

NextRecurrence == CallCalculateNextRecurrence

SpecRecurrence == InitRecurrence /\ [][NextRecurrence]_vars

\* the day number a date string names
DayOf(s) == ParseDate(s) \div 24

\* C6: calculateNextRecurrence('weekly', D) is the calendar date 7 days after
\* D and calculateNextRecurrence('daily', D) the date 1 day after D, for every
\* anchor date D
C6_WeeklyIsPlus7 ==
    (calc.result # NullDate /\ calc.date # NullDate) =>
        /\ calc.pattern = "weekly" => DayOf(calc.result) = DayOf(calc.date) + 7
        /\ calc.pattern = "daily" => DayOf(calc.result) = DayOf(calc.date) + 1

\* C21: for every pattern other than 'daily', 'weekly' and 'monthly'
\* ('weekdays', null, any other string) calculateNextRecurrence returns the
\* calendar date 1 day after the anchor date; with a null anchor it returns
\* the date 1 day after the current date (of the local or of the UTC clock)
C21_OtherPatternIsPlus1 ==
    (calc.result # NullDate /\ calc.pattern \notin {"daily", "weekly", "monthly"}) =>
        /\ calc.date # NullDate => DayOf(calc.result) = DayOf(calc.date) + 1
        /\ calc.date = NullDate =>
              DayOf(calc.result) \in {(LocalTime(now) \div 24) + 1, (now \div 24) + 1}

-----------------------------------------------------------------------------
(* Specification of the classifier alone: one task, every combination of   *)
(* its fields, every weekday and zone, classified once                     *)

\* the clock: each day of the week of 2024-01-01 (Monday) .. 2024-01-07
\* (Sunday), early, at midday and late in the UTC day
ClassifierClock == {d * 24 + h : d \in MakeDay(1, 1)..MakeDay(1, 7), h \in {1, 12, 23}}

\* due dates from the day before the week to past the end of the next week
ClassifierDueDates ==
    {ToISODate(d * 24) : d \in MakeDay(0, 31)..MakeDay(1, 7) + MaxDueOffset}
        \cup {NullDate}

\* a task is not completed, or was completed this hour, two hours ago or a
\* day ago
ClassifierCompletions(t) ==
    {[completed |-> FALSE, completedAt |-> NullTime]}
        \cup {[completed |-> TRUE, completedAt |-> t - back] : back \in {0, 2, 24}}

InitClassify ==
    /\ tz \in Zones
    /\ categories = TaskTypes /\ listeners = StartedListeners
    /\ now \in ClassifierClock
    /\ \E category \in StoredCategories, dueDate \in ClassifierDueDates,
          recurring \in {NullStr, "weekly"}, c \in ClassifierCompletions(now) :
          probe = [NoProbe EXCEPT
                     !.task = [NewTask(1, <<"a">>, "work", category, dueDate,
                                       recurring, recurring, NullStr)
                                 EXCEPT !.completed = c.completed,
                                        !.completedAt = c.completedAt]]
    /\ calc = NoCalc
    /\ db = NoDocs /\ nextId = 0
    /\ tasks = [t \in TaskTypes |-> <<>>]
    /\ pdb = NoPriorityDocs
    /\ priorities = NoPriorities /\ generated = 0
    /\ last = NoLast
    /\ ops = 0

\* renderWorkView / renderDashboardTasks: the task is offered to every section
\* and to the dashboard
Classify ==
    /\ ~probe.done
    /\ probe' = [probe EXCEPT
                   !.done = TRUE,
                   !.sections = {c \in Sections \cup {"completed"} : InCategory(probe.task, c)},
                   !.dashboard = InTodayTasks(probe.task)]
    /\ UNCHANGED <<categories, listeners, tz, now, calc, db, nextId, tasks, pdb, priorities, generated, last, ops>>

NextClassify == Classify

SpecClassify == InitClassify /\ [][NextClassify]_vars

\* the calendar date of the host's clock, as a day number, and the date
\* string of a day number
LocalDay == LocalTime(now) \div 24
DateString(day) == ToISODate(day * 24)

\* the sections of the work / personal view that list the classified task
ProbeSections == probe.sections \cap Sections

\* the classifier reads the task as completed on an earlier (or later) day
ProbeCompletedOtherDay == probe.task.completed /\ ~CompletedToday(probe.task)

\* the classifier reads the task's due date as today / as later than today
ProbeDueToday == probe.task.dueDate # NullDate /\ DueMidnight(probe.task) = Today
ProbeDueLater == probe.task.dueDate # NullDate /\ DueMidnight(probe.task) > Today

\* C1 as stated: exactly one of the six sections lists the task, unless it was
\* completed today or is a recurring task due today
C1_ExactlyOneSection ==
    (/\ probe.done
     /\ ~(probe.task.completed /\ CompletedToday(probe.task))
     /\ ~(probe.task.recurring # NullStr /\ ProbeDueToday))
        => Cardinality(ProbeSections) = 1

\* C1 amended: at most one of the six sections lists the task, and none does
\* exactly when the task was completed on another day or is a recurring task
\* due later than today
C1_AtMostOneSection ==
    probe.done =>
        /\ Cardinality(ProbeSections) <= 1
        /\ ProbeSections = {} <=>
              \/ ProbeCompletedOtherDay
              \/ probe.task.recurring # NullStr /\ ProbeDueLater

\* C1 witnesses: an uncompleted recurring task due later than today is listed
\* nowhere, and a recurring task due today is listed under 'recurring' alone
C1_Witness ==
    /\ probe.done
    /\ ~probe.task.completed
    /\ probe.task.recurring # NullStr
    /\ ProbeDueLater
    /\ ProbeSections = {}

\* the date string of today, as toISOString gives it (UTC) and as a date
\* input gives it (local)
TodayStrings == {ToISODate(now), ToISODate(LocalTime(now))}

ProbeUndatedThisWeek ==
    probe.done /\ probe.task.dueDate = NullDate /\ probe.task.category = "thisWeek"

\* C15 as stated: a task with no dueDate and category 'thisWeek' is under
\* 'thisWeek' and under no other date section, whatever the current date
C15_UndatedThisWeekStays ==
    ProbeUndatedThisWeek =>
        /\ "thisWeek" \in probe.sections
        /\ probe.sections \cap {"today", "nextWeek", "beyond"} = {}

\* C15 amended: such a task is under 'thisWeek' alone of the six sections
\* when it is not recurring and not completed on another day, whatever the
\* current date; when it is recurring or was completed on another day it is
\* not under 'thisWeek' and under no date section
C15_PlainUndatedThisWeekStays ==
    ProbeUndatedThisWeek =>
        IF probe.task.recurring = NullStr /\ ~ProbeCompletedOtherDay
        THEN ProbeSections = {"thisWeek"}
        ELSE ProbeSections \subseteq {"recurring"}

\* Scenario D on a Sunday, the last day of the week: the task is still under
\* 'thisWeek'
C15_Witness ==
    /\ ProbeUndatedThisWeek
    /\ ~probe.task.completed /\ probe.task.recurring = NullStr
    /\ getDay(Today) = 0
    /\ ProbeSections = {"thisWeek"}

\* C17: a completed task is under no section other than 'completed', except
\* a recurring task completed today, which is under 'recurring'
C17_CompletedOnlyUnderCompleted ==
    (probe.done /\ probe.task.completed) =>
        \/ ProbeSections = {}
        \/ /\ probe.task.recurring # NullStr
           /\ CompletedToday(probe.task)
           /\ ProbeSections = {"recurring"}

\* calendar dates as the user reads them: the task's dueDate is today's date
\* or an earlier one, and completedAt is an instant of today
DueByDate(task) == DayOf(task.dueDate) <= LocalDay
CompletedOnLocalDay(task) == LocalTime(task.completedAt) \div 24 = LocalDay

\* C18: getTodayTasks returns exactly the tasks that are not completed or
\* were completed (with a completedAt) on today's calendar date, and that
\* are due today or earlier when dueDate is set, of category 'today'
\* otherwise; a task completed on a prior day, or completed with no
\* completedAt, is never returned.
C18_TodayTasksExactly ==
    probe.done =>
        /\ probe.dashboard <=>
              /\ \/ ~probe.task.completed
                 \/ /\ probe.task.completedAt # NullTime
                    /\ CompletedOnLocalDay(probe.task)
              /\ IF probe.task.dueDate # NullDate THEN DueByDate(probe.task)
                 ELSE probe.task.category = "today"
        /\ ~InTodayTasks([probe.task EXCEPT !.completed = TRUE, !.completedAt = NullTime])

\* C19: a recurring task is never under 'thisWeek', 'nextWeek', 'beyond' or
\* 'backburner', whatever its dueDate, category and completion state and
\* whatever the current date; outside 'recurring' (and the 'completed'
\* archive) it is listed only as a today task, and only when it is due: it
\* has no dueDate, or its dueDate is today's date or an earlier one.
C19_RecurringOnlyUnderTodayWhenDue ==
    (probe.done /\ probe.task.recurring # NullStr) =>
        /\ probe.sections \cap {"thisWeek", "nextWeek", "beyond", "backburner"} = {}
        /\ ("today" \in probe.sections \/ probe.dashboard) =>
              \/ probe.task.dueDate = NullDate
              \/ DueByDate(probe.task)

\* C24: a task is under 'recurring' exactly when its recurring field is set,
\* it has no dueDate or its dueDate is today's date or an earlier one, and it
\* is not completed or was completed on today's calendar date.
C24_RecurringBucketExactly ==
    probe.done =>
        ("recurring" \in probe.sections <=>
            /\ probe.task.recurring # NullStr
            /\ probe.task.dueDate = NullDate \/ DueByDate(probe.task)
            /\ \/ ~probe.task.completed
               \/ /\ probe.task.completedAt # NullTime
                  /\ CompletedOnLocalDay(probe.task))

\* calendar days from today's date to the task's dueDate, and from today to
\* the upcoming Sunday (7 on a Sunday); day 0 of the calendar is a Friday
DueOffset(task) == DayOf(task.dueDate) - LocalDay
DaysToSunday == 7 - ((LocalDay + 5) % 7)

\* C25: an uncompleted, non-recurring task with a dueDate, offset days from
\* today, is under 'today' iff offset <= 0, under 'thisWeek' iff
\* 0 < offset <= s, under 'nextWeek' iff s < offset <= s + 7 and under
\* 'beyond' iff offset > s + 7, s being the days to the upcoming Sunday: under
\* exactly one of the four, on every weekday
C25_DateBucketsPartition ==
    (/\ probe.done /\ ~probe.task.completed
     /\ probe.task.recurring = NullStr /\ probe.task.dueDate # NullDate) =>
        LET offset == DueOffset(probe.task)
            s == DaysToSunday
        IN  /\ "today" \in probe.sections <=> offset <= 0
            /\ "thisWeek" \in probe.sections <=> (0 < offset /\ offset <= s)
            /\ "nextWeek" \in probe.sections <=> (s < offset /\ offset <= s + 7)
            /\ "beyond" \in probe.sections <=> offset > s + 7
            /\ Cardinality(probe.sections
                              \cap {"today", "thisWeek", "nextWeek", "beyond"}) = 1

-----------------------------------------------------------------------------
(* The priority list model: one category's list as the operations leave    *)
(* it (order = index), then adds, deletes and reorders on it               *)

MaxPriorityOps == 2   \* operations run in one behaviour of the priority list model

\* titles of the priorities of Scenario C
Letters == <<"A", "B", "C", "D", "E", "F">>

\* the list after n priorities were added
AddedList(n) == [i \in 1..n |-> [id |-> i, title |-> <<Letters[i]>>, order |-> i - 1]]

InitPriorities ==
    /\ tz \in Zones
    /\ categories = TaskTypes /\ listeners = ListeningListeners
    /\ now = StartOfModel
    /\ calc = NoCalc
    /\ probe = NoProbe
    /\ db = NoDocs /\ nextId = 0
    /\ tasks = [t \in TaskTypes |-> <<>>]
    /\ \E n \in 0..MaxPriorities :
          /\ generated = n
          /\ priorities = [t \in TaskTypes |-> IF t = "work" THEN AddedList(n) ELSE <<>>]
          /\ pdb = [NoPriorityDocs EXCEPT !["work"] =
                        [items |-> AddedList(n),
                         updatedAt |-> IF n = 0 THEN NullTime ELSE StartOfModel]]
    /\ last = NoLast
    /\ ops = MaxPriorityOps

NextPriorities ==
    \/ \E type \in TaskTypes : PrioritiesSnapshot(type)
    \/ \E ok \in BOOLEAN : AddPriority("work", <<"a">>, ok)
    \/ \E priorityId \in PriorityIdsSoFar, ok \in BOOLEAN :
          DeletePriority("work", priorityId, ok)
    \/ \E fromIndex \in 0..MaxPriorities, toIndex \in 0..MaxPriorities, ok \in BOOLEAN :
          ReorderPriorities("work", fromIndex, toIndex, ok)
    \/ \E priorityId \in PriorityIdsSoFar, ok \in BOOLEAN :
          UpdatePriority("work", priorityId, <<"b", " ">>, ok)
    \/ \E priorityId \in PriorityIdsSoFar, fromCategory \in TaskTypes,
          toCategory \in TaskTypes, beforePriorityId \in {0} \cup PriorityIdsSoFar,
          okFrom \in BOOLEAN, okTo \in BOOLEAN :
          MovePriorityToCategory(priorityId, fromCategory, toCategory, beforePriorityId,
                                 okFrom, okTo)

SpecPriorities == InitPriorities /\ [][NextPriorities]_vars

\* the ids of a list without one of them, in list order
IdsWithout(list, id) ==
    LET others == SelectSeq(list, LAMBDA p : p.id # id)
    IN  [i \in 1..Len(others) |-> others[i].id]

\* C3: reorderPriorities(type, i, j) with 0 <= i, j < n, once saved, leaves
\* a list with the same items (a permutation: same length, every item once,
\* titles kept), the moved item at index j, every other item in the same
\* relative order, and order = index, so the orders read back are 0..n-1.
C3_ReorderIsMoveWithOrderIndex ==
    [][\A fromIndex \in 0..MaxPriorities, toIndex \in 0..MaxPriorities :
          ReorderPriorities("work", fromIndex, toIndex, TRUE) =>
             LET old == priorities["work"]
                 new == pdb'["work"].items
                 moved == old[fromIndex + 1]
             IN  /\ Len(new) = Len(old)
                 /\ \A k \in 1..Len(old) :
                       Cardinality({m \in 1..Len(new) :
                                       /\ new[m].id = old[k].id
                                       /\ new[m].title = old[k].title}) = 1
                 /\ new[toIndex + 1].id = moved.id
                 /\ IdsWithout(new, moved.id) = IdsWithout(old, moved.id)
                 /\ \A m \in 1..Len(new) : new[m].order = m - 1
                 /\ priorities'["work"] = new]_vars

\* Scenario C has happened: [A,B,C,D] with C moved to index 0 is stored as
\* [C,A,B,D] with order 0,1,2,3
C3_Witness ==
    /\ last.op = "reorderPriorities" /\ last.outcome = "ok" /\ last.id = 3
    /\ Len(pdb["work"].items) = 4
    /\ [i \in 1..4 |-> pdb["work"].items[i].title] = << <<"C">>, <<"A">>, <<"B">>, <<"D">> >>
    /\ [i \in 1..4 |-> pdb["work"].items[i].order] = <<0, 1, 2, 3>>

\* order = index in a list
OrderIsIndex(list) == \A i \in 1..Len(list) : list[i].order = i - 1

\* C16: after any sequence of addPriority, deletePriority, reorderPriorities
\* and movePriorityToCategory (and updatePriority), from lists whose order
\* equals index, within each category the order values are pairwise
\* distinct, are exactly 0..n-1, and each is the item's index, in the local
\* lists and in the stored ones.
C16_OrderIsIndexInEveryCategory ==
    /\ \A c \in DOMAIN priorities :
          /\ OrderIsIndex(priorities[c])
          /\ {priorities[c][i].order : i \in 1..Len(priorities[c])}
                = 0..Len(priorities[c]) - 1
          /\ \A i \in 1..Len(priorities[c]), j \in 1..Len(priorities[c]) :
                i # j => priorities[c][i].order # priorities[c][j].order
    /\ \A c \in TaskTypes :
          /\ OrderIsIndex(pdb[c].items)
          /\ {pdb[c].items[i].order : i \in 1..Len(pdb[c].items)}
                = 0..Len(pdb[c].items) - 1

\* two priorities were moved from 'work', the first and then another, each
\* dropped before an item or at the end: both lists were renumbered
C16_Witness ==
    /\ last.op = "movePriorityToCategory" /\ last.outcome = "ok"
    /\ Len(pdb["personal"].items) = 2
    /\ pdb["personal"].items[1].id > pdb["personal"].items[2].id
    /\ Len(pdb["work"].items) = 2
    /\ pdb["work"].items[1].id = 2

\* the number of priorities the store holds, over both categories
StoredCount(docs) == Len(docs["work"].items) + Len(docs["personal"].items)

\* C26: movePriorityToCategory of a priority that is stored in the source
\* category leaves it stored in exactly one of the two categories, and the
\* number of stored priorities as it was, whether the two saves go through
\* or the first or the second fails.
C26_MoveConservesPriorities ==
    [][(/\ Ran("movePriorityToCategory") /\ last'.had
        /\ last'.id \in PriorityIds(pdb[last'.type].items)
        /\ \A c \in TaskTypes \ {last'.type} : last'.id \notin PriorityIds(pdb[c].items)) =>
          /\ Cardinality({c \in TaskTypes : last'.id \in PriorityIds(pdb'[c].items)}) = 1
          /\ StoredCount(pdb') = StoredCount(pdb)]_vars

-----------------------------------------------------------------------------
(* Direct calls of reorderPriorities with any indexes, on the lists of the *)
(* priority list model                                                     *)

\* indexes a caller holding a stale list can pass, -1 being findIndex's
\* "not found"
StaleIndexes == (0 - 1)..(MaxPriorities + 1)

NextReorderCalls ==
    \/ \E type \in TaskTypes : PrioritiesSnapshot(type)
    \/ \E fromIndex \in StaleIndexes, toIndex \in StaleIndexes, ok \in BOOLEAN :
          reorderPriorities("work", fromIndex, toIndex, ok)

SpecReorderCalls == InitPriorities /\ [][NextReorderCalls]_vars

\* C11: a reorderPriorities call with a fromIndex or toIndex that is not an
\* index of the list (here the first call on the list of n added priorities)
\* does not throw and leaves the local and the stored list as they were:
\* nothing inserted, nothing dropped, every order value kept.
C11_StaleReorderIsNoOp ==
    (last.op = "reorderPriorities" /\ ~last.had /\ ops = MaxPriorityOps - 1) =>
        /\ last.outcome # "threw"
        /\ priorities["work"] = AddedList(generated)
        /\ pdb["work"].items = AddedList(generated)

-----------------------------------------------------------------------------
(* Deleting twice, and adding with a blank title (Spec) *)

\* C7: a deleteTask of a task that is no longer stored, and a deletePriority
\* of a priority that is neither in the local list nor in the stored one
\* (the local list being the stored one, as the first delete left it), is a
\* no-op: the stored items and their order values stay exactly as they
\* were, and the call raises no error unless the store rejects its write.
C7_SecondDeleteIsNoOp ==
    [][/\ \A taskId \in TaskIds, ok \in BOOLEAN :
             DeleteTask(taskId, ok) /\ taskId \notin DOMAIN db =>
                /\ db' = db
                /\ ok => last'.outcome = "ok"
       /\ \A priorityId \in PriorityIdsSoFar, ok \in BOOLEAN :
             (/\ DeletePriority("work", priorityId, ok)
              /\ "work" \in DOMAIN priorities
              /\ priorities["work"] = pdb["work"].items
              /\ ~HasPriority("work", priorityId)) =>
                /\ pdb'["work"].items = pdb["work"].items
                /\ priorities' = priorities
                /\ ok => last'.outcome = "ok"]_vars

\* task 1 was added and deleted, and a second deleteTask of it has run
C7_Witness ==
    /\ last.op = "deleteTask" /\ last.id = 1 /\ ~last.had /\ last.outcome = "ok"
    /\ nextId = 1 /\ db = NoDocs

\* C8: addTask and addPriority create nothing when the title is empty after
\* trimming: an item they created has a title that is not empty.
C8_BlankTitleCreatesNothing ==
    /\ last.op = "addTask" =>
          \A id \in last.created : id \in DOMAIN db => db[id].title # <<>>
    /\ last.op = "addPriority" =>
          \A id \in last.created :
             \A i \in 1..Len(pdb["work"].items) :
                pdb["work"].items[i].id = id => pdb["work"].items[i].title # <<>>

-----------------------------------------------------------------------------
(* The ordering model: tasks added without options, dragged into an order  *)
(* and deleted                                                             *)

MaxOrderingOps == 4   \* operations run in one behaviour of the ordering model

InitOrdering ==
    /\ tz \in Zones
    /\ categories = TaskTypes /\ listeners = StartedListeners
    /\ now = StartOfModel
    /\ calc = NoCalc
    /\ probe = NoProbe
    /\ db = NoDocs /\ nextId = 0
    /\ tasks = [t \in TaskTypes |-> <<>>]
    /\ pdb = NoPriorityDocs
    /\ priorities = NoPriorities /\ generated = 0
    /\ last = NoLast
    /\ ops = MaxOrderingOps

NextOrdering ==
    \/ \E type \in TaskTypes : TaskSnapshot(type)
    \/ \E ok \in BOOLEAN : AddTask("work", <<"a">>, NoOptions, ok)
    \/ \E taskId \in TaskIds, ok \in BOOLEAN : DeleteTask(taskId, ok)
    \/ \E view \in Views, initialIndex \in 0..MaxTasks, newIndex \in 0..MaxTasks,
          rejected \in SUBSET TaskIds :
          DragReorder("work", view, initialIndex, newIndex, rejected)

SpecOrdering == InitOrdering /\ [][NextOrdering]_vars

\* the listener has delivered the stored tasks
Delivered(type) == tasks[type] = Query(db, type)

\* C9: a task created by addTask without options is stored with category
\* 'today' and completed false, addTask returns its ID, and once delivered
\* it is listed last in its bucket by getTasksByCategory and getTodayTasks.
C9_AddedTaskIsListedLast ==
    (last.op = "addTask" /\ last.outcome = "ok" /\ Delivered("work")) =>
        LET bucket == getTasksByCategory("work", "today")
            today == getTodayTasks("work")
        IN  /\ last.id \in DOMAIN db /\ last.created = {last.id}
            /\ db[last.id].category = "today"
            /\ db[last.id].completed = FALSE
            /\ bucket # <<>> /\ bucket[Len(bucket)].id = last.id
            /\ today # <<>> /\ today[Len(today)].id = last.id

\* C10: after deleteTask has removed a task, the tasks that remain in its
\* bucket (here 'today', where every task of the ordering model is), their
\* orders having been set by an earlier reorder, have the order values
\* 0..n-1 in listing order: no gap is left at the deleted task's rank.
C10_DeleteRenormalisesOrders ==
    LET bucket == getTasksByCategory("work", "today")
    IN  (/\ last.op = "deleteTask" /\ last.had /\ last.outcome = "ok"
         /\ Delivered("work")
         /\ \A i \in 1..Len(bucket) : bucket[i].order # NoOrder) =>
            \A i \in 1..Len(bucket) : bucket[i].order = i - 1

-----------------------------------------------------------------------------
(* Specification of the listeners: the modules are started and restarted,   *)
(* the store delivers snapshots of the categories document, of the          *)
(* priorities documents and of the tasks in any order, and may end the      *)
(* categories subscription with an error                                    *)

MaxRegistrations == 6   \* calls that register listeners in one behaviour

\* the lists the categories document may hold
CategoryLists == {{"work", "personal"}, {"work"}, {"work", "personal", "home"}}
AllCategories == UNION CategoryLists

InitListeners ==
    /\ tz \in Zones
    /\ categories = TaskTypes /\ listeners = NoListeners
    /\ now = StartOfModel
    /\ calc = NoCalc
    /\ probe = NoProbe
    /\ db = <<NewTask(1, <<"a">>, "work", "today", NullDate, NullStr, NullStr, 1)>>
    /\ nextId = 1
    /\ tasks = [t \in TaskTypes |-> <<>>]
    /\ \E n \in {0, 2}, m \in {0, 1} :
          pdb = [t \in TaskTypes |->
                    [items |-> IF t = "work" THEN AddedList(n) ELSE AddedList(m),
                     updatedAt |-> NullTime]]
    /\ priorities = NoPriorities /\ generated = 0
    /\ last = NoLast
    /\ ops = 0

\* app.js calls loadTasks() at every sign-in
LoadTasks ==
    /\ listeners.registered < MaxRegistrations
    /\ listeners' = loadTasks(listeners)
    /\ UNCHANGED <<categories, tz, now, calc, probe, db, nextId, tasks, pdb, priorities,
                   generated, last, ops>>

\* and loadPriorities()
LoadPriorities ==
    /\ listeners.registered < MaxRegistrations
    /\ listeners' = loadPriorities(listeners)
    /\ UNCHANGED <<categories, tz, now, calc, probe, db, nextId, tasks, pdb, priorities,
                   generated, last, ops>>

\* the categories listener delivers the document
CategoriesDelivered(list) ==
    /\ CategoriesListening
    /\ listeners.registered < MaxRegistrations
    /\ CategoriesCallback(list)
    /\ UNCHANGED <<tz, now, calc, probe, db, nextId, tasks, pdb, generated, last, ops>>

NextListeners ==
    \/ LoadTasks
    \/ LoadPriorities
    \/ \E list \in CategoryLists : CategoriesDelivered(list)
    \/ CategoriesError
    \/ \E type \in AllCategories : PrioritiesSnapshot(type)
    \/ \E type \in TaskTypes : TaskSnapshot(type)

SpecListeners == InitListeners /\ [][NextListeners]_vars

\* C23: in every interleaving of the categories, priorities and tasks
\* deliveries, a categories-listener error included, renderPriorityStrip,
\* renderPrioritiesManager, renderMobilePriorities and getPriorityName do not
\* fail, and show a category that has no priorities list as an empty one.
C23_ProjectionsTolerateMissingLists ==
    /\ \A cat \in categories :
          /\ ~renderPriorityStrip[cat].threw
          /\ ~renderPrioritiesManager[cat].threw
          /\ ~renderMobilePriorities[cat].threw
          /\ cat \notin DOMAIN priorities =>
                /\ renderPriorityStrip[cat].html = <<>>
                /\ renderPrioritiesManager[cat].html = <<>>
                /\ renderMobilePriorities[cat].html = <<>>
    /\ \A type \in AllCategories, priorityId \in 0..MaxPriorities :
          /\ ~getPriorityName(priorityId, type).threw
          /\ type \notin DOMAIN priorities => getPriorityName(priorityId, type).title = <<>>

\* the categories listener has ended with an error, the work priorities and
\* the tasks have been delivered and the personal priorities have not:
\* 'personal' is a category without a list
C23_Witness ==
    /\ listeners.categoriesListener # {} /\ ~CategoriesListening
    /\ "personal" \in categories /\ "personal" \notin DOMAIN priorities
    /\ "work" \in DOMAIN priorities /\ priorities["work"] # <<>>
    /\ tasks["work"] # <<>>

\* the listeners of one kind that are subscribed
Active(kind) == {l \in listeners.active : l.kind = kind}

\* the subscribed listeners of a kind are exactly one per key of `keys`
OnePerKey(kind, keys) ==
    /\ {l.key : l \in Active(kind)} = keys
    /\ Cardinality(Active(kind)) = Cardinality(keys)

\* the handles the modules hold
Handles ==
    listeners.taskListeners \cup listeners.priorityListeners \cup listeners.categoriesListener

\* C29: once loadTasks and loadPriorities have been called, after any
\* further calls of them and any categories deliveries (the categories
\* subscription not having been ended by an error), the subscribed listeners
\* are exactly one tasks listener per task type, one categories listener and
\* one priorities listener per category of `categories`, and each of them is
\* one whose handle is held: none registered earlier is still subscribed.
C29_ListenersExactlyCurrent ==
    (listeners.taskListeners # {} /\ CategoriesListening) =>
        /\ listeners.active = Handles
        /\ OnePerKey("tasks", TaskTypes)
        /\ OnePerKey("categories", {"categories"})
        /\ OnePerKey("priorities", categories)

\* C29 as the code has it: the priorities listeners are one per category
\* only once the categories listener registered by the latest loadPriorities
\* call has run a callback; from that call until then none is subscribed.
\* The tasks and categories listeners are as claimed, and no listener whose
\* handle is no longer held is subscribed, in every state.
C29_ListenersCurrentOnceDelivered ==
    /\ listeners.active \subseteq Handles
    /\ listeners.taskListeners # {} =>
          OnePerKey("tasks", TaskTypes) /\ Active("tasks") = listeners.taskListeners
    /\ CategoriesListening =>
          OnePerKey("categories", {"categories"})
    /\ listeners.categoriesListener # {} =>
          /\ Active("priorities") = listeners.priorityListeners
          /\ IF listeners.awaiting THEN Active("priorities") = {}
             ELSE OnePerKey("priorities", categories)

\* the modules were started twice and the second categories listener has
\* delivered a list of three categories
C29_Witness ==
    /\ listeners.registered >= 5
    /\ listeners.taskListeners # {} /\ CategoriesListening /\ ~listeners.awaiting
    /\ categories = {"work", "personal", "home"}
    /\ Cardinality(Active("priorities")) = 3

\* C22: a drag reorder issues one order write per task of the dragged list,
\* with order = the task's new index, and no other write; every write the
\* store accepts is applied; 'Tasks reordered' is shown exactly when every
\* one of the writes went through, and not at all when one failed.
C22_ReorderWritesEveryIndex ==
    [][\A view \in Views, initialIndex \in 0..MaxTasks, newIndex \in 0..MaxTasks,
          rejected \in SUBSET TaskIds :
          DragReorder("work", view, initialIndex, newIndex, rejected) =>
              LET rendered == RenderedList("work", view)
                  element == rendered[initialIndex + 1]
                  taskElements == Splice(Splice(rendered, initialIndex, 1, <<>>),
                                         newIndex, 0, <<element>>)
                  accepted(i) == /\ taskElements[i].id \in DOMAIN db
                                 /\ taskElements[i].id \notin rejected
                  listed == {taskElements[i].id : i \in 1..Len(taskElements)}
              IN  /\ DOMAIN db' = DOMAIN db
                  /\ \A i \in 1..Len(taskElements) :
                         accepted(i) => db'[taskElements[i].id].order = i - 1
                  /\ \A id \in DOMAIN db : id \notin listed => db'[id] = db[id]
                  /\ (\A i \in 1..Len(taskElements) : accepted(i))
                         <=> last'.toast = <<"Tasks reordered">>
                  /\ (\E i \in 1..Len(taskElements) : ~accepted(i))
                         => \A k \in 1..Len(last'.toast) :
                                last'.toast[k] # "Tasks reordered"]_vars

\* a reorder of three tasks, one of whose writes the store rejected: the
\* other two tasks have their new indexes and no success toast was shown
C22_Witness ==
    /\ last.op = "onDragEnd" /\ last.rejected = 1
    /\ last.toast = <<"Failed to update task">>
    /\ Cardinality({id \in DOMAIN db : db[id].order # NoOrder}) = 2
    /\ Cardinality(DOMAIN db) = 3

-----------------------------------------------------------------------------
(* Store writes that fail (Spec) *)

\* C12: an operation with a store write that failed has shown a toast for
\* every failed write and has signalled the failure to its caller.
C12_FailedWriteToastedAndRethrown ==
    last.rejected > 0 =>
        /\ last.outcome = "rejected"
        /\ Len(last.toast) >= last.rejected

\* C13: a mutation whose store write fails leaves the in-memory caches
\* (tasks, and priorities with the categories that have a list) equal to
\* what they were before the mutation was attempted.
C13_FailedWriteKeepsCaches ==
    [][(ops' # ops /\ last'.rejected > 0) =>
          /\ tasks' = tasks
          /\ priorities' = priorities]_vars

-----------------------------------------------------------------------------
(* moveTask (Spec) *)

\* the fields of a task moveTask is not about
KeptFields ==
    {"id", "title", "type", "recurring", "recurringPattern", "priorityId", "completed",
     "completedAt", "createdAt", "order"}

\* C14: moveTask(id, 'tomorrow') writes dueDate = today + 1 day and category
\* 'today', moveTask(id, 'nextWeek') writes dueDate = today + 7 days and
\* category 'thisWeek', any other target writes category = target and
\* dueDate null; no other field of the task is changed.  Today is the
\* calendar date of the host's clock.
C14_MoveTaskWrites ==
    [][\A taskId \in TaskIds, target \in MoveTargets :
          (MoveTask(taskId, target, TRUE) /\ taskId \in DOMAIN db) =>
             LET before == db[taskId]
                 after == db'[taskId]
             IN  /\ target = "tomorrow" =>
                       /\ after.dueDate = DateString(LocalDay + 1)
                       /\ after.category = "today"
                 /\ target = "nextWeek" =>
                       /\ after.dueDate = DateString(LocalDay + 7)
                       /\ after.category = "thisWeek"
                 /\ target \notin {"tomorrow", "nextWeek"} =>
                       /\ after.dueDate = NullDate
                       /\ after.category = target
                 /\ \A f \in KeptFields : after[f] = before[f]]_vars

-----------------------------------------------------------------------------
(* Operations on an item that is gone (Spec) *)

\* C20: a moveTask or completeTask (updatePriority, movePriorityToCategory)
\* that names an item no longer present is a silent no-op: no store write
\* is made, no toast is shown and nothing is thrown.
C20_StaleReferenceIsSilent ==
    (/\ last.op \in {"moveTask", "completeTask", "updatePriority",
                     "movePriorityToCategory"}
     /\ ~last.had) =>
        /\ last.outcome = "noop"
        /\ last.toast = <<>>
        /\ last.rejected = 0

-----------------------------------------------------------------------------
(* Successors of recurring tasks (Spec) *)

\* the stored task j is, field for field, the task createNextRecurrence adds
\* for the stored task i
IsSuccessor(j, i) == j > i /\ db[j] = NextRecurrenceTask(db[i], j)

\* C27: the store never holds two successors of the same occurrence of a
\* recurring task (two tasks createNextRecurrence added for the same task,
\* with the same dueDate), whatever completeTask calls and snapshot
\* deliveries have run.
C27_NoDuplicateSuccessor ==
    \A i \in DOMAIN db : db[i].recurring # NullStr =>
        \A j, k \in DOMAIN db : (IsSuccessor(j, i) /\ IsSuccessor(k, i)) => j = k

\* C28: a completeTask whose completion write the store rejects adds no
\* task, changes nothing in the store and is rejected; and whenever a
\* completeTask has added a successor, the completion write went through:
\* the task it completed is stored as completed, with a completedAt.
C28_SuccessorOnlyAfterCompletion ==
    [][\A taskId \in TaskIds, ok \in BOOLEAN, okNext \in BOOLEAN :
          CompleteTask(taskId, "work", ok, okNext) =>
              LET added == DOMAIN db' \ DOMAIN db
              IN  /\ (CachedTask("work", taskId) # <<>> /\ ~UpdateAccepted(taskId, ok)) =>
                        /\ db' = db
                        /\ last'.outcome = "rejected"
                        /\ last'.created = {}
                  /\ added # {} =>
                        /\ UpdateAccepted(taskId, ok)
                        /\ db'[taskId].completed
                        /\ db'[taskId].completedAt # NullTime
                        /\ \A j \in added : db'[j] = NextRecurrenceTask(CachedTask("work", taskId)[1], j)]_vars

\* a completeTask has failed on a recurring task that is cached as not
\* completed: the store holds that task alone, not completed
C28_Witness ==
    /\ last.op = "completeTask" /\ last.had /\ last.outcome = "rejected"
    /\ DOMAIN db = {1} /\ ~db[1].completed /\ db[1].recurring # NullStr
    /\ CachedTask("work", 1) # <<>>

-----------------------------------------------------------------------------
(* Specification of a move and the sections after it: one plain task, in    *)
(* the store and in the cache, is moved on any day of the week, in any     *)
(* zone; the snapshot is delivered and the date moves on                   *)

MaxDaysAfterMove == 1   \* days the clock moves on after the move

\* a task that is not completed, not recurring and has no dueDate
PlainTask == NewTask(1, <<"a">>, "work", "beyond", NullDate, NullStr, NullStr, NullStr)

InitMove ==
    /\ tz \in Zones
    /\ categories = TaskTypes /\ listeners = StartedListeners
    /\ now \in ClassifierClock
    /\ calc = NoCalc
    /\ probe = NoProbe
    /\ db = <<PlainTask>> /\ nextId = 1
    /\ tasks = [t \in TaskTypes |-> IF t = "work" THEN <<PlainTask>> ELSE <<>>]
    /\ pdb = NoPriorityDocs
    /\ priorities = NoPriorities /\ generated = 0
    /\ last = NoLast
    /\ ops = 1

\* the date has advanced by one day since the move
NextDay ==
    /\ last.op = "moveTask"
    /\ now < db[1].updatedAt + 24 * MaxDaysAfterMove
    /\ now' = now + 24
    /\ UNCHANGED <<db, nextId, tasks, last, ops, OtherVars>>

NextMove ==
    \/ \E target \in MoveTargets, ok \in BOOLEAN : MoveTask(1, target, ok)
    \/ \E type \in TaskTypes : TaskSnapshot(type)
    \/ NextDay

SpecMove == InitMove /\ [][NextMove]_vars

\* the task was moved with the target that stores `category`, and the
\* listener has delivered it
MovedTo(category) ==
    /\ last.op = "moveTask" /\ last.outcome = "ok"
    /\ db[1].category = category /\ db[1].dueDate # NullDate
    /\ Delivered("work")

\* getTasksByCategory lists the task under the section
Listed(section) ==
    \E i \in 1..Len(getTasksByCategory("work", section)) :
        getTasksByCategory("work", section)[i].id = 1

\* C30: right after moveTask(id, 'nextWeek') the task is under 'nextWeek'
\* and not under 'thisWeek' or 'beyond', on every weekday; right after
\* moveTask(id, 'tomorrow') it is under 'thisWeek', and one day later under
\* 'today'.
C30_MovedTaskIsListedWhereMoved ==
    /\ (MovedTo("thisWeek") /\ now = db[1].updatedAt) =>
          Listed("nextWeek") /\ ~Listed("thisWeek") /\ ~Listed("beyond")
    /\ (MovedTo("today") /\ now = db[1].updatedAt) => Listed("thisWeek")
    /\ (MovedTo("today") /\ now = db[1].updatedAt + 24) => Listed("today")

====
